---------------------------- MODULE Spec2Model ----------------------------
(***************************************************************************)
(* The SQL statement splitter of sql/migrate/lex.go: stmts(), newLex(),    *)
(* lex.stmt(), lex.next() and lex.skipQuote().                             *)
(*                                                                         *)
(* A Go string is a sequence of bytes.  An ASCII byte is written as the    *)
(* one-character string of its character (the backtick, 0x60, as "x60");   *)
(* the two bytes of the two-byte UTF-8 encoding of U+00E9 are written "C3" *)
(* and "A9".  Offsets (pos,                                                *)
(* start) are Go's 0-based byte offsets: the byte at offset i of s is      *)
(* s[i+1].                                                                 *)
(***************************************************************************)
EXTENDS Integers, Sequences, FiniteSets, TLC

VARIABLES
    raw,      \* the argument of stmts(): the file's text
    pc,       \* position in stmts(): "start", "scan", "returned", "done"
    l,        \* the *lex that newLex returned (l.nil: the nil pointer)
    s,        \* stmts(): s of "s, err := l.stmt()"
    err,      \* stmts(): err of "s, err := l.stmt()", and of newLex
    stmts,    \* stmts(): the slice "var stmts []string"
    res,      \* what stmts() returned: [stmts, err], once pc = "done"
    rets      \* history: the line of lex.go each call of l.stmt() returned at

vars == <<raw, pc, l, s, err, stmts, res, rets>>

---------------------------------------------------------------------------
(* Bounds of the checked input space. *)

\* Longest input over the whole byte alphabet.
MaxLen == 3
\* Longest input over one of the small alphabets.
MaxCoreLen == 5
\* Longest text after the delimiter marker.
MaxRestLen == 5
\* Statements appended by stmts() before the model stops following the loop.
MaxStmts == 3

---------------------------------------------------------------------------
(* Strings and bytes. *)

SeqsUpTo(A, n) == UNION {[1..k -> A] : k \in 0..n}

\* Go's s[a:b] and s[a:] for in-range offsets.
Slice(str, a, b) == SubSeq(str, a + 1, b)
SliceFrom(str, a) == SubSeq(str, a + 1, Len(str))
\* strings.HasPrefix
HasPrefix(str, prefix) ==
    /\ Len(prefix) <= Len(str)
    /\ SubSeq(str, 1, Len(prefix)) = prefix

\* strings.Index(str, sub): the 0-based offset of the first occurrence, or -1.
Index(str, sub) ==
    LET hits == {i \in 0..(Len(str) - Len(sub)) :
                    SubSeq(str, i + 1, i + Len(sub)) = sub}
    IN  IF hits = {} THEN -1
        ELSE CHOOSE i \in hits : \A j \in hits : i <= j

\* unicode.IsSpace on the bytes of the alphabet (all ASCII white space).
IsSpace(b) == b \in {" ", "\n", "\t", "\r"}

\* strings.TrimSpace: leading and trailing white space removed.
TrimSpace(str) ==
    LET keep == {i \in 1..Len(str) : ~IsSpace(str[i])}
    IN  IF keep = {} THEN <<>>
        ELSE LET lo == CHOOSE i \in keep : \A j \in keep : i <= j
                 hi == CHOOSE i \in keep : \A j \in keep : j <= i
             IN  SubSeq(str, lo, hi)

\* utf8.RuneError, and the rune U+00E9.
RuneError == "U+FFFD"
RuneE9 == "U+00E9"

\* utf8.DecodeRuneInString(str[i:]) for i < len(str): the rune and its width.
\* "C3" followed by "A9" is the two-byte encoding of U+00E9; a "C3" without
\* its continuation byte, or a stray "A9", is invalid UTF-8 and decodes to
\* RuneError with width 1.
DecodeRuneInString(str, i) ==
    LET b == str[i + 1]
    IN  IF b = "C3" /\ i + 1 < Len(str) /\ str[i + 2] = "A9"
            THEN [r |-> RuneE9, w |-> 2]
        ELSE IF b \in {"C3", "A9"}
            THEN [r |-> RuneError, w |-> 1]
        ELSE [r |-> b, w |-> 1]

---------------------------------------------------------------------------
(* Constants and values of lex.go. *)

eos == "eos"

delimComment ==
    <<"/", "/", "a", "t", "l", "a", "s", ":",
      "d", "e", "l", "i", "m", "i", "t", "e", "r", " ">>

\* An error value: its message, and the %d or %q argument of the message.
Err(msg, p, q) == [msg |-> msg, pos |-> p, quote |-> q]
ErrNil == Err("nil", -1, "")
EOF == Err("EOF", -1, "")
ErrInvalidDelimiter == Err("invalid delimiter", -1, "")
ErrUnclosedParens == Err("unclosed parentheses", -1, "")
ErrUnexpectedParen(p) == Err("unexpected ')' at position %d", p, "")
ErrUnclosedQuote(q) == Err("unclosed quote %q", -1, q)
ErrUnclosedComment(p) == Err("unclosed comment: %d", p, "")

\* The lex struct; lex(in, d) is &lex{input: in, delim: d}.
lex(in, d) ==
    [nil |-> FALSE, input |-> in, pos |-> 0, width |-> 0, start |-> 0,
     depth |-> 0, delim |-> d]
\* The nil *lex.
NilLex ==
    [nil |-> TRUE, input |-> <<>>, pos |-> 0, width |-> 0, start |-> 0,
     depth |-> 0, delim |-> <<>>]

---------------------------------------------------------------------------
(* newLex *)

\* newLex without the strings.TrimSpace of the text after the marker.
newLex_NoSecondTrim(in) ==
    LET trimmed == TrimSpace(in)
    IN  IF HasPrefix(trimmed, delimComment)
        THEN LET rest == SliceFrom(trimmed, Len(delimComment))
                 i == Index(rest, <<"\n">>)
             IN  IF i = -1
                 THEN [l |-> NilLex, err |-> ErrInvalidDelimiter]
                 ELSE [l |-> lex(SliceFrom(rest, i + 1), Slice(rest, 0, i)),
                       err |-> ErrNil]
        ELSE [l |-> lex(trimmed, <<";">>), err |-> ErrNil]

\* newLex without the check "if i == -1": the whole text after the marker is
\* taken as the delimiter.
newLex_NoNewlineCheck(in) ==
    LET trimmed == TrimSpace(in)
    IN  IF HasPrefix(trimmed, delimComment)
        THEN LET rest == TrimSpace(SliceFrom(trimmed, Len(delimComment)))
                 i == Index(rest, <<"\n">>)
             IN  IF i = -1
                 THEN [l |-> lex(<<>>, rest), err |-> ErrNil]
                 ELSE [l |-> lex(SliceFrom(rest, i + 1), Slice(rest, 0, i)),
                       err |-> ErrNil]
        ELSE [l |-> lex(trimmed, <<";">>), err |-> ErrNil]

\* newLex with delim = input[:i+1].
newLex_DelimIncludesNewline(in) ==
    LET trimmed == TrimSpace(in)
    IN  IF HasPrefix(trimmed, delimComment)
        THEN LET rest == TrimSpace(SliceFrom(trimmed, Len(delimComment)))
                 i == Index(rest, <<"\n">>)
             IN  IF i = -1
                 THEN [l |-> NilLex, err |-> ErrInvalidDelimiter]
                 ELSE [l |-> lex(SliceFrom(rest, i + 1), Slice(rest, 0, i + 1)),
                       err |-> ErrNil]
        ELSE [l |-> lex(trimmed, <<";">>), err |-> ErrNil]

newLex(in) ==
    LET trimmed == TrimSpace(in)
    IN  IF HasPrefix(trimmed, delimComment)
        THEN LET rest == TrimSpace(SliceFrom(trimmed, Len(delimComment)))
                 i == Index(rest, <<"\n">>)
             IN  IF i = -1
                 THEN [l |-> NilLex, err |-> ErrInvalidDelimiter]
                 ELSE [l |-> lex(SliceFrom(rest, i + 1), Slice(rest, 0, i)),
                       err |-> ErrNil]
        ELSE [l |-> lex(trimmed, <<";">>), err |-> ErrNil]

---------------------------------------------------------------------------
(* lex.next and lex.skipQuote *)

\* l.next(): the rune read (or eos) and the lexer afterwards.
next(lx) ==
    IF lx.pos >= Len(lx.input)
    THEN [r |-> eos, l |-> lx]
    ELSE LET d == DecodeRuneInString(lx.input, lx.pos)
         IN  [r |-> d.r,
              l |-> [lx EXCEPT !.pos = @ + d.w, !.width = d.w]]

\* l.skipQuote(quote) without the case r == '\\'.
RECURSIVE skipQuote_NoEscape(_, _)
skipQuote_NoEscape(lx, quote) ==
    LET n == next(lx)
    IN  IF n.r = eos THEN [err |-> ErrUnclosedQuote(quote), l |-> n.l]
        ELSE IF n.r = quote THEN [err |-> ErrNil, l |-> n.l]
        ELSE skipQuote_NoEscape(n.l, quote)

\* l.skipQuote(quote): the error returned and the lexer afterwards.
RECURSIVE skipQuote(_, _)
skipQuote(lx, quote) ==
    LET n == next(lx)
    IN  IF n.r = eos THEN [err |-> ErrUnclosedQuote(quote), l |-> n.l]
        ELSE IF n.r = "\\" THEN skipQuote(next(n.l).l, quote)
        ELSE IF n.r = quote THEN [err |-> ErrNil, l |-> n.l]
        ELSE skipQuote(n.l, quote)

---------------------------------------------------------------------------
(* lex.stmt: one iteration of its for loop. *)

\* What an iteration does: go round the loop again, or return (s, err).
\* line: the line of lex.go of the return statement.
Continue(lx) ==
    [l |-> lx, ret |-> FALSE, s |-> <<>>, err |-> ErrNil, line |-> 0]
Return(lx, str, e, line) ==
    [l |-> lx, ret |-> TRUE, s |-> str, err |-> e, line |-> line]

\* case r == eos without the check "if l.depth > 0".
caseEos_NoDepthCheck(lx) ==
    IF lx.pos > lx.start
        THEN Return(lx, SliceFrom(lx.input, lx.start), ErrNil, 73)
    ELSE Return(lx, <<>>, EOF, 75)

\* case r == eos testing "l.pos >= l.start".
caseEos_GeqStart(lx) ==
    IF lx.depth > 0 THEN Return(lx, <<>>, ErrUnclosedParens, 70)
    ELSE IF lx.pos >= lx.start
        THEN Return(lx, SliceFrom(lx.input, lx.start), ErrNil, 73)
    ELSE Return(lx, <<>>, EOF, 75)

\* case r == eos
caseEos(lx) ==
    IF lx.depth > 0 THEN Return(lx, <<>>, ErrUnclosedParens, 70)
    ELSE IF lx.pos > lx.start
        THEN Return(lx, SliceFrom(lx.input, lx.start), ErrNil, 73)
    ELSE Return(lx, <<>>, EOF, 75)

\* case r == '('
caseOpenParen(lx) == Continue([lx EXCEPT !.depth = @ + 1])

\* case r == ')' reporting the offset of the ')' itself.
caseCloseParen_OffsetOfParen(lx) ==
    IF lx.depth = 0
    THEN Return(lx, <<>>, ErrUnexpectedParen(lx.pos - lx.width), 80)
    ELSE Continue([lx EXCEPT !.depth = @ - 1])

\* case r == ')'
caseCloseParen(lx) ==
    IF lx.depth = 0 THEN Return(lx, <<>>, ErrUnexpectedParen(lx.pos), 80)
    ELSE Continue([lx EXCEPT !.depth = @ - 1])

\* case quote dropping the error of l.skipQuote(r).
caseQuote_DropsError(lx, r) == Continue(skipQuote(lx, r).l)

\* case r == '\'', r == '"', r == backtick
caseQuote(lx, r) ==
    LET q == skipQuote(lx, r)
    IN  IF q.err # ErrNil THEN Return(q.l, <<>>, q.err, 85)
        ELSE Continue(q.l)

\* case r == '-' && l.next() == '-'
caseLineComment(lx) ==
    LET i == Index(SliceFrom(lx.input, lx.pos), <<"\n">>)
    IN  IF i # -1 THEN Continue([lx EXCEPT !.pos = @ + i + 1])
        ELSE Continue(lx)

\* case r == '/' && l.next() == '*' without "l.pos += i + 2".
caseBlockComment_NoSkip(lx) ==
    LET i == Index(SliceFrom(lx.input, lx.pos), <<"*", "/">>)
    IN  IF i < 0 THEN Return(lx, <<>>, ErrUnclosedComment(lx.pos), 94)
        ELSE Continue(lx)

\* case r == '/' && l.next() == '*'
caseBlockComment(lx) ==
    LET i == Index(SliceFrom(lx.input, lx.pos), <<"*", "/">>)
    IN  IF i < 0 THEN Return(lx, <<>>, ErrUnclosedComment(lx.pos), 94)
        ELSE Continue([lx EXCEPT !.pos = @ + i + 2])

\* The delimiter case without "if l.depth == 0".
caseDelim_AnyDepth(lx) ==
    Return([lx EXCEPT !.start = lx.pos - lx.width,
                      !.pos = lx.pos + Len(lx.delim)],
           Slice(lx.input, lx.start, lx.pos), ErrNil, 102)

\* The delimiter case with l.start set to the advanced cursor.
caseDelim_StartAfterAdvance(lx) ==
    IF lx.depth = 0
    THEN Return([lx EXCEPT !.start = lx.pos + Len(lx.delim),
                           !.pos = lx.pos + Len(lx.delim)],
                Slice(lx.input, lx.start, lx.pos), ErrNil, 102)
    ELSE Continue(lx)

\* case strings.HasPrefix(l.input[l.pos-l.width:], l.delim)
caseDelim(lx) ==
    IF lx.depth = 0
    THEN Return([lx EXCEPT !.start = lx.pos - lx.width,
                           !.pos = lx.pos + Len(lx.delim)],
                Slice(lx.input, lx.start, lx.pos), ErrNil, 102)
    ELSE Continue(lx)

\* The backtick byte.
Backtick == "x60"

Quotes == {"'", "\"", Backtick}

\* The switch of stmt() with a lookahead that is not consumed when it does
\* not complete "--" or "/*".
stmtCase_Peek(lx) ==
    LET n == next(lx)
        r == n.r
        la == next(n.l)
    IN  IF r = eos THEN [case |-> "eos", r |-> r, l |-> n.l]
        ELSE IF r = "(" THEN [case |-> "(", r |-> r, l |-> n.l]
        ELSE IF r = ")" THEN [case |-> ")", r |-> r, l |-> n.l]
        ELSE IF r \in Quotes THEN [case |-> "quote", r |-> r, l |-> n.l]
        ELSE IF r = "-" /\ la.r = "-" THEN [case |-> "--", r |-> r, l |-> la.l]
        ELSE IF r = "/" /\ la.r = "*" THEN [case |-> "/*", r |-> r, l |-> la.l]
        ELSE IF HasPrefix(SliceFrom(n.l.input, n.l.pos - n.l.width), n.l.delim)
            THEN [case |-> "delim", r |-> r, l |-> n.l]
        ELSE [case |-> "none", r |-> r, l |-> n.l]

\* The switch of stmt(): the case taken, the rune r read by "r := l.next()",
\* and the lexer once the conditions of the cases up to the one taken are
\* evaluated, in order.  The conditions "r == '-' && l.next() == '-'" and
\* "r == '/' && l.next() == '*'" call l.next() when their left side holds,
\* whether or not the right side then holds.
stmtCase(lx) ==
    LET n == next(lx)
        r == n.r
        la == next(n.l)
    IN  IF r = eos THEN [case |-> "eos", r |-> r, l |-> n.l]
        ELSE IF r = "(" THEN [case |-> "(", r |-> r, l |-> n.l]
        ELSE IF r = ")" THEN [case |-> ")", r |-> r, l |-> n.l]
        ELSE IF r \in Quotes THEN [case |-> "quote", r |-> r, l |-> n.l]
        ELSE IF r = "-" /\ la.r = "-" THEN [case |-> "--", r |-> r, l |-> la.l]
        ELSE IF r = "/" /\ la.r = "*" THEN [case |-> "/*", r |-> r, l |-> la.l]
        ELSE LET l2 == IF r \in {"-", "/"} THEN la.l ELSE n.l
             IN  IF HasPrefix(SliceFrom(l2.input, l2.pos - l2.width), l2.delim)
                 THEN [case |-> "delim", r |-> r, l |-> l2]
                 ELSE [case |-> "none", r |-> r, l |-> l2]

\* One iteration of the for loop of stmt().
stmtIter(lx) ==
    LET c == stmtCase(lx)
    IN  CASE c.case = "eos" -> caseEos(c.l)
          [] c.case = "(" -> caseOpenParen(c.l)
          [] c.case = ")" -> caseCloseParen(c.l)
          [] c.case = "quote" -> caseQuote(c.l, c.r)
          [] c.case = "--" -> caseLineComment(c.l)
          [] c.case = "/*" -> caseBlockComment(c.l)
          [] c.case = "delim" -> caseDelim(c.l)
          [] OTHER -> Continue(c.l)

---------------------------------------------------------------------------
(* The inputs checked. *)

Bytes ==
    {"a", ";", "(", ")", "'", "\"", Backtick, "-", "/", "*", "\n", "\\", " ",
     "$", "C3", "A9"}

CoreAlphabets ==
    { {"a", ";", "(", ")", "'", "-"},
      {"a", ";", "'", "\"", "\\", "C3"},
      {"a", ";", "-", "/", "*", "\n"},
      {"/", "*", "(", "'"} }

RestAlphabet == {"$", "\n", " ", "a", ";"}

Inputs ==
    SeqsUpTo(Bytes, MaxLen)
    \cup UNION {SeqsUpTo(A, MaxCoreLen) : A \in CoreAlphabets}
    \cup {pre \o delimComment \o rest :
            pre \in {<<>>, <<" ">>}, rest \in SeqsUpTo(RestAlphabet, MaxRestLen)}

---------------------------------------------------------------------------
(* stmts() and its calls. *)

Init ==
    /\ raw \in Inputs
    /\ pc = "start"
    /\ l = NilLex
    /\ s = <<>>
    /\ err = ErrNil
    /\ stmts = <<>>
    /\ res = [stmts |-> <<>>, err |-> ErrNil]
    /\ rets = <<>>

\* l, err := newLex(input); if err != nil { return nil, err }
StmtsNewLex ==
    /\ pc = "start"
    /\ LET n == newLex(raw)
       IN  /\ l' = n.l
           /\ err' = n.err
           /\ IF n.err # ErrNil
              THEN pc' = "done" /\ res' = [stmts |-> <<>>, err |-> n.err]
              ELSE pc' = "scan" /\ res' = res
    /\ UNCHANGED <<raw, s, stmts, rets>>

\* What an iteration of the loop of l.stmt(), called at "s, err := l.stmt()",
\* leaves behind.
StmtStep(it) ==
    /\ l' = it.l
    /\ IF it.ret
       THEN /\ pc' = "returned"
            /\ s' = it.s
            /\ err' = it.err
            /\ rets' = Append(rets, it.line)
       ELSE /\ pc' = "scan"
            /\ UNCHANGED <<s, err, rets>>
    /\ UNCHANGED <<raw, stmts, res>>

StmtEos ==
    /\ pc = "scan"
    /\ stmtCase(l).case = "eos"
    /\ StmtStep(stmtIter(l))

StmtOpenParen ==
    /\ pc = "scan"
    /\ stmtCase(l).case = "("
    /\ StmtStep(stmtIter(l))

StmtCloseParen ==
    /\ pc = "scan"
    /\ stmtCase(l).case = ")"
    /\ StmtStep(stmtIter(l))

StmtQuote ==
    /\ pc = "scan"
    /\ stmtCase(l).case = "quote"
    /\ StmtStep(stmtIter(l))

StmtLineComment ==
    /\ pc = "scan"
    /\ stmtCase(l).case = "--"
    /\ StmtStep(stmtIter(l))

StmtBlockComment ==
    /\ pc = "scan"
    /\ stmtCase(l).case = "/*"
    /\ StmtStep(stmtIter(l))

StmtDelim ==
    /\ pc = "scan"
    /\ stmtCase(l).case = "delim"
    /\ StmtStep(stmtIter(l))

\* No case of the switch holds: the runes read are passed over.
StmtNone ==
    /\ pc = "scan"
    /\ stmtCase(l).case = "none"
    /\ StmtStep(stmtIter(l))

\* if err == io.EOF { return stmts, nil }
StmtsEOF ==
    /\ pc = "returned"
    /\ err = EOF
    /\ pc' = "done"
    /\ res' = [stmts |-> stmts, err |-> ErrNil]
    /\ UNCHANGED <<raw, l, s, err, stmts, rets>>

\* "return stmts, err": the statements appended so far are returned.
StmtsErr_KeepsStatements ==
    /\ pc = "returned"
    /\ err # EOF
    /\ err # ErrNil
    /\ pc' = "done"
    /\ res' = [stmts |-> stmts, err |-> err]
    /\ UNCHANGED <<raw, l, s, err, stmts, rets>>

\* if err != nil { return nil, err }
StmtsErr ==
    /\ pc = "returned"
    /\ err # EOF
    /\ err # ErrNil
    /\ pc' = "done"
    /\ res' = [stmts |-> <<>>, err |-> err]
    /\ UNCHANGED <<raw, l, s, err, stmts, rets>>

\* stmts = append(stmts, s), and the next l.stmt() is called.  The loop is
\* followed for MaxStmts statements.
StmtsAppend ==
    /\ pc = "returned"
    /\ err = ErrNil
    /\ Len(stmts) < MaxStmts
    /\ stmts' = Append(stmts, s)
    /\ pc' = "scan"
    /\ s' = <<>>
    /\ UNCHANGED <<raw, l, err, res, rets>>

Next ==
    \/ StmtsNewLex
    \/ StmtEos
    \/ StmtOpenParen
    \/ StmtCloseParen
    \/ StmtQuote
    \/ StmtLineComment
    \/ StmtBlockComment
    \/ StmtDelim
    \/ StmtNone
    \/ StmtsEOF
    \/ StmtsErr
    \/ StmtsAppend

Spec == Init /\ [][Next]_vars

---------------------------------------------------------------------------
(* Vocabulary of the properties. *)

\* The trimmed input, and the text after the delimiter marker when the
\* trimmed input begins with it.
Trimmed == TrimSpace(raw)
HasMarker == HasPrefix(Trimmed, delimComment)
AfterMarker == SliceFrom(Trimmed, Len(delimComment))

\* The byte at 0-based offset i of str.
At(str, i) == str[i + 1]

\* The iteration about to run reads, with its "r := l.next()", the byte b.
Reads(b) == pc = "scan" /\ l.pos < Len(l.input) /\ At(l.input, l.pos) = b

\* Bytes that open or close a structure stmt() tracks.
Structural == Quotes \cup {"(", ")", "-", "/", "\\"}
\* No structural byte at the offsets a .. b-1 of str.
Plain(str, a, b) == \A k \in a..(b - 1) : At(str, k) \notin Structural

\* str is one or more non-empty runs of "a" joined by ";".
IsJoined(str) ==
    /\ Len(str) > 0
    /\ \A k \in 1..Len(str) : str[k] \in {"a", ";"}
    /\ str[1] # ";"
    /\ str[Len(str)] # ";"
    /\ \A k \in 1..(Len(str) - 1) : ~(str[k] = ";" /\ str[k + 1] = ";")
\* The 1-based indexes of the ";" of str, in increasing order, and the
\* segments they separate.
Semis(str) == {k \in 1..Len(str) : str[k] = ";"}
NSegments(str) == Cardinality(Semis(str)) + 1
SegStart(str, i) ==
    IF i = 1 THEN 1
    ELSE 1 + CHOOSE k \in Semis(str) :
                 Cardinality({j \in Semis(str) : j <= k}) = i - 1
SegEnd(str, i) ==
    IF i = NSegments(str) THEN Len(str)
    ELSE (CHOOSE k \in Semis(str) :
              Cardinality({j \in Semis(str) : j <= k}) = i) - 1
Segment(str, i) == SubSeq(str, SegStart(str, i), SegEnd(str, i))

---------------------------------------------------------------------------
(* C1 *)

\* C1: for an input of N statements joined by the default delimiter ";",
\* stmts() returns exactly N statements, in order, each equal to its segment
\* (the statement is accepted with or without the delimiter after it).
C1_SplitsJoinedStatements ==
    IsJoined(raw) =>
        /\ Len(stmts) <= NSegments(raw)
        /\ \A i \in 1..Len(stmts) :
               \/ stmts[i] = Segment(raw, i)
               \/ stmts[i] = Segment(raw, i) \o <<";">>
        /\ pc = "done" =>
               /\ res.err = ErrNil
               /\ Len(res.stmts) = NSegments(raw)

---------------------------------------------------------------------------
(* C2 *)

\* C2: once a call of stmt() has returned the leftover text at end of input
\* (line 73), the next call signals exhaustion (line 75): the sequence of
\* statements is finite.
C2_ExhaustionAfterFinalStatement ==
    \A i \in 1..(Len(rets) - 1) : rets[i] = 73 => rets[i + 1] = 75

---------------------------------------------------------------------------
(* C3 *)

\* The offset of the first byte of the delimiter occurrence the iteration
\* about to run matches.
DelimAt == stmtCase(l).l.pos - stmtCase(l).l.width
MatchesDelim ==
    pc = "scan" /\ stmtCase(l).case = "delim" /\ stmtCase(l).l.depth = 0

\* C3: on a delimiter match at depth 0 the statement returned is the text
\* from statementStart up to the first byte of the delimiter, and afterwards
\* the cursor and statementStart are both just past the delimiter.
C3_DelimiterConsumedOnce ==
    [][MatchesDelim =>
          /\ pc' = "returned"
          /\ err' = ErrNil
          /\ s' = Slice(l.input, l.start, DelimAt)
          /\ l'.pos = DelimAt + Len(l.delim)
          /\ l'.start = DelimAt + Len(l.delim)]_vars

---------------------------------------------------------------------------
(* C4 *)

\* The delimiter occurrence at offset d of str lies inside a quoted literal
\* that nothing structural precedes: an opening quote at i, the same quote
\* at j, no such quote and no backslash between them.
InQuoted(str, d, dl) ==
    \E i \in 0..(d - 1), j \in (d + dl)..(Len(str) - 1) :
        /\ At(str, i) \in Quotes
        /\ At(str, j) = At(str, i)
        /\ Plain(str, 0, i)
        /\ \A k \in (i + 1)..(j - 1) : At(str, k) \notin {At(str, i), "\\"}

\* The delimiter occurrence at offset d of str lies inside unmatched
\* parentheses: a "(" at i that nothing structural precedes, and nothing
\* structural between it and the occurrence.
InParens(str, d) ==
    \E i \in 0..(d - 1) :
        /\ At(str, i) = "("
        /\ Plain(str, 0, i)
        /\ Plain(str, i + 1, d)

\* C4: a delimiter occurrence inside a quoted literal or inside unmatched
\* parentheses is never a statement boundary.
C4_NoBoundaryInQuoteOrParens ==
    [][(MatchesDelim /\ pc' = "returned") =>
          /\ ~InQuoted(l.input, DelimAt, Len(l.delim))
          /\ ~InParens(l.input, DelimAt)]_vars

---------------------------------------------------------------------------
(* C5 *)

\* The delimiter occurrence at offset d of str lies inside a line comment
\* that nothing structural precedes: "--" at i and no newline up to d.
InLineComment(str, d) ==
    \E i \in 0..(d - 2) :
        /\ At(str, i) = "-"
        /\ At(str, i + 1) = "-"
        /\ Plain(str, 0, i)
        /\ \A k \in (i + 2)..(d - 1) : At(str, k) # "\n"

\* The delimiter occurrence at offset d of str lies inside a block comment
\* that nothing structural precedes: "/*" at i, its first "*/" at j.
InBlockComment(str, d, dl) ==
    \E i \in 0..(d - 2), j \in (d + dl)..(Len(str) - 2) :
        /\ At(str, i) = "/"
        /\ At(str, i + 1) = "*"
        /\ Plain(str, 0, i)
        /\ At(str, j) = "*"
        /\ At(str, j + 1) = "/"
        /\ \A k \in (i + 2)..(j - 1) :
               ~(At(str, k) = "*" /\ At(str, k + 1) = "/")

\* C5: a delimiter occurrence inside a line comment or a block comment is
\* never a statement boundary.
C5_NoBoundaryInComment ==
    [][(MatchesDelim /\ pc' = "returned") =>
          /\ ~InLineComment(l.input, DelimAt)
          /\ ~InBlockComment(l.input, DelimAt, Len(l.delim))]_vars

---------------------------------------------------------------------------
(* C6 *)

\* k is the offset in AfterMarker of the first byte that is not white space,
\* and n that of the first newline after it.
DirectiveAt(k, n) ==
    /\ k < n
    /\ \A j \in 0..(k - 1) : IsSpace(At(AfterMarker, j))
    /\ ~IsSpace(At(AfterMarker, k))
    /\ At(AfterMarker, n) = "\n"
    /\ \A j \in k..(n - 1) : At(AfterMarker, j) # "\n"
\* n is the offset in AfterMarker of the first newline.
FirstNewlineAt(n) ==
    /\ At(AfterMarker, n) = "\n"
    /\ \A j \in 0..(n - 1) : At(AfterMarker, j) # "\n"
AfterOffsets == 0..(Len(AfterMarker) - 1)

\* C6 as stated: with the marker and a later newline, the delimiter is the
\* text between the marker and the first newline after it, not trimmed, and
\* the buffer is what follows that newline; without the marker the delimiter
\* is ";" and the buffer the trimmed input.
C6_DelimiterVerbatimAfterMarker ==
    pc # "start" =>
        /\ HasMarker =>
               \A n \in AfterOffsets :
                   FirstNewlineAt(n) =>
                       /\ ~l.nil
                       /\ l.delim = Slice(AfterMarker, 0, n)
                       /\ l.input = SliceFrom(AfterMarker, n + 1)
        /\ ~HasMarker =>
               /\ ~l.nil
               /\ l.delim = <<";">>
               /\ l.input = Trimmed

\* C6, amended: the white space that follows the marker is skipped first;
\* the delimiter is the text from the first byte after the marker that is
\* not white space up to the first newline after that byte, otherwise
\* verbatim, and the buffer is what follows that newline.
C6_DelimiterAfterMarkerAndSpace ==
    pc # "start" =>
        /\ HasMarker =>
               \A k \in AfterOffsets, n \in AfterOffsets :
                   DirectiveAt(k, n) =>
                       /\ ~l.nil
                       /\ l.delim = Slice(AfterMarker, k, n)
                       /\ l.input = SliceFrom(AfterMarker, n + 1)
        /\ ~HasMarker =>
               /\ ~l.nil
               /\ l.delim = <<";">>
               /\ l.input = Trimmed

\* A directive whose delimiter text is preceded by white space and ends in
\* white space, with a buffer after it.
C6_Witness ==
    /\ pc = "scan"
    /\ HasMarker
    /\ IsSpace(At(AfterMarker, 0))
    /\ l.delim = <<"$", " ">>
    /\ Len(l.input) > 0

---------------------------------------------------------------------------
(* C7 *)

\* What stmts() leaves when newLex fails.
NewLexFailed ==
    /\ l.nil
    /\ pc = "done"
    /\ res = [stmts |-> <<>>, err |-> ErrInvalidDelimiter]
    /\ stmts = <<>>
    /\ rets = <<>>

\* C7 as stated: newLex fails with the invalid-delimiter error exactly when
\* the trimmed input begins with the marker and no newline follows the
\* marker, and stmts() then returns that error and no statements.
C7_FailsIffNoNewlineAfterMarker ==
    pc # "start" =>
        /\ l.nil <=>
               /\ HasMarker
               /\ \A n \in AfterOffsets : At(AfterMarker, n) # "\n"
        /\ (l.nil \/ res.err = ErrInvalidDelimiter) => NewLexFailed

\* C7, amended: newLex fails exactly when the trimmed input begins with the
\* marker and no newline follows the first byte after the marker that is not
\* white space; stmts() then returns that error and no statements.
C7_FailsIffNoNewlineAfterDelimiterText ==
    pc # "start" =>
        /\ l.nil <=>
               /\ HasMarker
               /\ \A k \in AfterOffsets, n \in AfterOffsets :
                      ~(k < n /\ ~IsSpace(At(AfterMarker, k))
                          /\ At(AfterMarker, n) = "\n")
        /\ (l.nil \/ res.err = ErrInvalidDelimiter) => NewLexFailed

\* newLex failed although a newline follows the marker.
C7_Witness ==
    /\ NewLexFailed
    /\ HasMarker
    /\ \E n \in AfterOffsets : At(AfterMarker, n) = "\n"

---------------------------------------------------------------------------
(* C8 *)

\* C8: an iteration of stmt() that finds the cursor at end of input while
\* depth > 0 returns the unclosed-parentheses error and an empty statement.
C8_UnclosedParensAtEos ==
    [][(pc = "scan" /\ l.pos >= Len(l.input) /\ l.depth > 0) =>
          /\ pc' = "returned"
          /\ err' = ErrUnclosedParens
          /\ s' = <<>>
          /\ stmts' = stmts]_vars

\* The error was returned with text accumulated since the last boundary,
\* after an earlier statement.
C8_Witness ==
    /\ pc = "returned"
    /\ err = ErrUnclosedParens
    /\ l.depth > 0
    /\ l.pos > l.start
    /\ Len(stmts) > 0

---------------------------------------------------------------------------
(* C9 *)

\* C9 as stated: a ")" scanned at depth 0 returns the unexpected-")" error
\* carrying the offset of that ")", and leaves the depth at 0.
C9_UnexpectedParenAtItsOffset ==
    [][(Reads(")") /\ l.depth = 0) =>
          /\ pc' = "returned"
          /\ s' = <<>>
          /\ err' = ErrUnexpectedParen(l.pos)
          /\ l'.depth = 0]_vars

\* C9, amended: the offset carried is that of the cursor once the ")" is
\* consumed: the offset of the ")" plus one.
C9_UnexpectedParenAtCursor ==
    [][(Reads(")") /\ l.depth = 0) =>
          /\ pc' = "returned"
          /\ s' = <<>>
          /\ err' = ErrUnexpectedParen(l.pos + 1)
          /\ l'.depth = 0]_vars

\* The error for a ")" that is not the first byte of the buffer.
C9_Witness ==
    /\ pc = "returned"
    /\ err = ErrUnexpectedParen(l.pos)
    /\ l.pos >= 2
    /\ At(l.input, l.pos - 1) = ")"
    /\ l.depth = 0

---------------------------------------------------------------------------
(* C10 *)

\* The number of consecutive backslashes just before offset j of str, none
\* before offset from.
BackslashRun(str, from, j) ==
    Cardinality({k \in from..(j - 1) :
                    \A m \in k..(j - 1) : At(str, m) = "\\"})
\* The quote q reappears unescaped at or after offset from of str.
Reappears(str, from, q) ==
    \E j \in from..(Len(str) - 1) :
        /\ At(str, j) = q
        /\ BackslashRun(str, from, j) % 2 = 0

\* C10: when the rune read opens a quoted region and the same quote does
\* not reappear unescaped before end of input, stmt() returns the
\* unclosed-quote error naming that quote, and no statement.
C10_UnclosedQuoteNamed ==
    [][\A q \in Quotes :
          (Reads(q) /\ ~Reappears(l.input, l.pos + 1, q)) =>
              /\ pc' = "returned"
              /\ err' = ErrUnclosedQuote(q)
              /\ s' = <<>>
              /\ stmts' = stmts]_vars

\* The error for a double quote whose only reappearance is escaped, where
\* another quote character occurs in between.
C10_Witness ==
    /\ pc = "returned"
    /\ err = ErrUnclosedQuote("\"")
    /\ \E i \in 0..(Len(l.input) - 4) :
           /\ At(l.input, i) = "\""
           /\ At(l.input, i + 1) = "'"
           /\ At(l.input, i + 2) = "\\"
           /\ At(l.input, i + 3) = "\""

---------------------------------------------------------------------------
(* C11 *)

OnlySpace(str) == \A k \in 1..Len(str) : IsSpace(str[k])

\* C11: for empty or white-space-only input newLex succeeds, the first call
\* of stmt() signals exhaustion, and stmts() returns zero statements and no
\* error.
C11_EmptyInputNoStatements ==
    OnlySpace(raw) =>
        /\ pc # "start" => ~l.nil /\ l.input = <<>>
        /\ pc = "scan" => rets = <<>>
        /\ pc = "returned" => rets = <<75>> /\ err = EOF /\ s = <<>>
        /\ pc = "done" => rets = <<75>> /\ res = [stmts |-> <<>>, err |-> ErrNil]
        /\ stmts = <<>>

\* stmts() has returned for an input of two white-space bytes.
C11_Witness ==
    /\ OnlySpace(raw)
    /\ Len(raw) = 2
    /\ pc = "done"
    /\ rets = <<75>>

---------------------------------------------------------------------------
(* C12 *)

\* The statements of ss with the delimiter d between them.
RECURSIVE Join(_, _)
Join(ss, d) ==
    IF Len(ss) = 0 THEN <<>>
    ELSE IF Len(ss) = 1 THEN ss[1]
    ELSE ss[1] \o d \o Join(Tail(ss), d)

\* The statements ss, joined, give back the buffer up to surrounding white
\* space (a delimiter that ends the buffer is allowed to be dropped).
RoundTrip(ss) ==
    LET joined == TrimSpace(Join(ss, l.delim))
    IN  \/ joined = TrimSpace(l.input)
        \/ TrimSpace(joined \o l.delim) = TrimSpace(l.input)

\* C12: when the split meets no error, the statements joined with the
\* delimiter reconstruct the scanned buffer: for what stmts() returns, and
\* for the sequence of statements up to the first one returned at end of
\* input.
C12_RoundTrip ==
    /\ (pc = "done" /\ ~l.nil /\ res.err = ErrNil) => RoundTrip(res.stmts)
    /\ (pc = "returned" /\ rets[Len(rets)] = 73
           /\ \A i \in 1..(Len(rets) - 1) : rets[i] = 102) =>
           RoundTrip(Append(stmts, s))

---------------------------------------------------------------------------
(* C13 *)

ErrorLines == {70, 80, 85, 94}

\* C13: stmt() returns an empty statement with any error; stmts() then
\* returns no statements with that error, whatever was appended before, and
\* stmt() is not called again.
C13_ErrorAbortsScan ==
    /\ (pc = "returned" /\ err # ErrNil) => s = <<>>
    /\ \A i \in 1..(Len(rets) - 1) : rets[i] \notin ErrorLines
    /\ (Len(rets) > 0 /\ rets[Len(rets)] \in ErrorLines) =>
           /\ pc \in {"returned", "done"}
           /\ s = <<>>
           /\ err \notin {ErrNil, EOF}
           /\ pc = "done" => res = [stmts |-> <<>>, err |-> err]
    /\ (pc = "done" /\ res.err # ErrNil) => res.stmts = <<>>

\* stmts() returned an error and no statements after two were appended.
C13_Witness ==
    /\ pc = "done"
    /\ res.err = ErrUnclosedParens
    /\ res.stmts = <<>>
    /\ Len(stmts) = 2

---------------------------------------------------------------------------
(* C14 *)

\* The iteration about to run reads "-" not followed by "-", or "/" not
\* followed by "*", and a code point follows.
FailedLookahead ==
    /\ pc = "scan"
    /\ l.pos + 1 < Len(l.input)
    /\ \/ At(l.input, l.pos) = "-" /\ At(l.input, l.pos + 1) # "-"
       \/ At(l.input, l.pos) = "/" /\ At(l.input, l.pos + 1) # "*"
\* The offset just past the code point that follows.
PastLookahead == l.pos + 1 + DecodeRuneInString(l.input, l.pos + 1).w

\* C14 as stated: the code point consumed as lookahead is not examined by
\* any rule: the depth is unchanged, no quoted region starts, and no
\* delimiter match begins at it.
C14_LookaheadNotExamined ==
    [][FailedLookahead =>
          /\ pc' = "scan"
          /\ l'.depth = l.depth
          /\ l'.start = l.start
          /\ l'.pos = PastLookahead]_vars

\* C14, amended: the code point consumed as lookahead does not change the
\* depth and starts no quoted region, but the delimiter check of the
\* iteration is made at it: a delimiter that begins there is matched, at
\* depth 0 as a statement boundary.
C14_LookaheadOnlyDelimiterChecked ==
    [][FailedLookahead =>
          /\ l'.depth = l.depth
          /\ IF /\ HasPrefix(SliceFrom(l.input, l.pos + 1), l.delim)
                /\ l.depth = 0
             THEN /\ pc' = "returned"
                  /\ err' = ErrNil
                  /\ s' = Slice(l.input, l.start, PastLookahead)
                  /\ l'.pos = PastLookahead + Len(l.delim)
             ELSE /\ pc' = "scan"
                  /\ l'.start = l.start
                  /\ l'.pos = PastLookahead]_vars

\* "-(" was passed over at the start of the buffer and the depth is 0.
C14_Witness ==
    /\ pc = "scan"
    /\ l.pos = 2
    /\ Len(l.input) > 2
    /\ At(l.input, 0) = "-"
    /\ At(l.input, 1) = "("
    /\ l.depth = 0

---------------------------------------------------------------------------
(* C15 *)

\* The offsets of the newlines of str at or after offset from.
NewlinesFrom(str, from) ==
    {k \in from..(Len(str) - 1) : At(str, k) = "\n"}
\* Just past the first newline at or after from, or the end of str.
PastLine(str, from) ==
    IF NewlinesFrom(str, from) = {} THEN Len(str)
    ELSE 1 + CHOOSE k \in NewlinesFrom(str, from) :
                 \A j \in NewlinesFrom(str, from) : k <= j

\* C15: on "--" the cursor moves to just past the next newline, or to end
\* of input when no newline remains; the depth is unchanged and the comment
\* stays in the statement being accumulated.
C15_LineCommentSkipped ==
    [][(Reads("-") /\ l.pos + 1 < Len(l.input)
          /\ At(l.input, l.pos + 1) = "-") =>
          /\ pc' = "scan"
          /\ l'.pos = PastLine(l.input, l.pos + 2)
          /\ l'.depth = l.depth
          /\ l'.start = l.start]_vars

---------------------------------------------------------------------------
(* C16 *)

\* The offsets at or after from where the quote q occurs unescaped.
UnescapedAt(str, from, q) ==
    {j \in from..(Len(str) - 1) :
        At(str, j) = q /\ BackslashRun(str, from, j) % 2 = 0}

\* C16: a quoted region ends exactly at the first unescaped occurrence of
\* its opening quote: a quote after an unescaped backslash does not close
\* it, and nothing inside it changes the depth or the statement start.
C16_QuoteEndsAtFirstUnescaped ==
    [][\A q \in Quotes :
          (Reads(q) /\ Reappears(l.input, l.pos + 1, q)) =>
              /\ pc' = "scan"
              /\ l'.pos - 1 \in UnescapedAt(l.input, l.pos + 1, q)
              /\ \A j \in UnescapedAt(l.input, l.pos + 1, q) : l'.pos - 1 <= j
              /\ l'.depth = l.depth
              /\ l'.start = l.start]_vars

\* The region '\'' was skipped whole.
C16_Witness ==
    /\ pc = "scan"
    /\ l.input = <<"'", "\\", "'", "'">>
    /\ l.pos = 4

---------------------------------------------------------------------------
(* C17 *)

\* The offsets at or after from where "*/" occurs in str.
ClosersFrom(str, from) ==
    {j \in from..(Len(str) - 2) : At(str, j) = "*" /\ At(str, j + 1) = "/"}

\* C17: on "/*" the cursor moves to just past the first following "*/" with
\* the depth and the statement start unchanged, whatever the comment holds;
\* when no "*/" follows, stmt() returns the unclosed-comment error with the
\* offset just past the "/*" and no statement.
C17_BlockCommentSkipped ==
    [][(Reads("/") /\ l.pos + 1 < Len(l.input)
          /\ At(l.input, l.pos + 1) = "*") =>
          IF ClosersFrom(l.input, l.pos + 2) # {}
          THEN /\ pc' = "scan"
               /\ l'.pos - 2 \in ClosersFrom(l.input, l.pos + 2)
               /\ \A j \in ClosersFrom(l.input, l.pos + 2) : l'.pos - 2 <= j
               /\ l'.depth = l.depth
               /\ l'.start = l.start
          ELSE /\ pc' = "returned"
               /\ s' = <<>>
               /\ err' = ErrUnclosedComment(l.pos + 2)
               /\ rets' = Append(rets, 94)]_vars

\* A comment holding "(" or "'" was skipped whole at depth 0.
C17_Witness ==
    /\ pc = "scan"
    /\ l.input \in {<<"/", "*", "(", "*", "/">>, <<"/", "*", "'", "*", "/">>}
    /\ l.pos = 5
    /\ l.depth = 0

---------------------------------------------------------------------------
(* C18 *)

\* C18: the depth of a lexer is never negative, and stmt() returns a
\* statement (line 73 or line 102) only at depth 0.
C18_DepthNonNegativeZeroAtReturn ==
    ~l.nil =>
        /\ l.depth >= 0
        /\ (pc = "returned" /\ err = ErrNil) =>
               /\ rets[Len(rets)] \in {73, 102}
               /\ l.depth = 0

\* A statement holding a closed parenthesis pair was returned at its
\* delimiter.
C18_Witness ==
    /\ pc = "returned"
    /\ err = ErrNil
    /\ rets = <<102>>
    /\ Len(l.input) > 2
    /\ At(l.input, 0) = "("
    /\ At(l.input, 2) = ")"
    /\ l.depth = 0

---------------------------------------------------------------------------
(* C19 *)

\* str[a:b] is in range.
SliceOK(str, a, b) == 0 <= a /\ a <= b /\ b <= Len(str)

\* The slice expressions the iteration about to run evaluates are in range.
IterSlicesOK ==
    LET c == stmtCase(l)
        n == Len(l.input)
    IN  /\ c.case = "eos" /\ c.l.depth = 0 /\ c.l.pos > c.l.start =>
               SliceOK(l.input, c.l.start, n)
        /\ c.case \in {"--", "/*"} => SliceOK(l.input, c.l.pos, n)
        /\ c.case \in {"delim", "none"} =>
               SliceOK(l.input, c.l.pos - c.l.width, n)
        /\ c.case = "delim" /\ c.l.depth = 0 =>
               SliceOK(l.input, c.l.start, c.l.pos)

\* C19: 0 <= start <= pos and start <= len(input) always hold, and every
\* slice of the input that stmt() evaluates is in range, the delimiter
\* check's input[pos-width:] included.
C19_SlicesInRange ==
    ~l.nil =>
        /\ 0 <= l.start
        /\ l.start <= l.pos
        /\ l.start <= Len(l.input)
        /\ pc = "scan" => IterSlicesOK

\* After a return, the cursor is beyond the end of the buffer and stmt()
\* is about to run.
C19_Witness ==
    /\ pc = "scan"
    /\ Len(rets) > 0
    /\ l.pos > Len(l.input)

---------------------------------------------------------------------------
(* C20 *)

\* C20: the delimiter of a lexer that newLex returned is non-empty and
\* holds no newline, and no step of stmt() changes the delimiter or the
\* buffer.
C20_DelimiterFixed ==
    /\ [](~l.nil =>
              /\ Len(l.delim) > 0
              /\ \A i \in 1..Len(l.delim) : l.delim[i] # "\n")
    /\ [][~l.nil => l'.delim = l.delim /\ l'.input = l.input]_vars

\* A lexer with a two-byte delimiter from the directive has returned from
\* stmt().
C20_Witness ==
    /\ pc = "returned"
    /\ HasMarker
    /\ Len(l.delim) = 2
    /\ Len(l.input) > 0

===========================================================================
